---- MODULE Spec2Model ----
(***************************************************************************)
(* lock_free_queue<T> (queue.h): a linked list of nodes with split         *)
(* reference counts.  Every atomic operation and every non-atomic access   *)
(* to a shared node field of push, pop, release_ref,                       *)
(* increase_external_count and free_external_counter is one step of the    *)
(* calling thread; the driver threads are those of main.cpp.               *)
(***************************************************************************)
EXTENDS Integers, Sequences, FiniteSets, TLC

(* ---------------------------- bounds ---------------------------------- *)
\* calls of push per producer in the free-running scenario
MaxPush == 1
\* calls of pop per consumer in the free-running scenario
MaxPop == 2
\* items of the one-producer/one-consumer scenario
SpscItems == 3
\* pushes of the single-threaded scenario
SeqItems == 2
\* largest external_count a head/tail slot is driven to (claims are unbounded
\* in the code: a thread that keeps losing keeps claiming)
MaxExternal == 4
\* calls of push that end in std::bad_alloc in the out-of-memory scenario
MaxThrow == 2
\* items of the out-of-memory scenario
NoMemItems == 2

(* ------------------------ program constants --------------------------- *)
\* unsigned int internal_count:30
InternalBits == 30
\* unsigned int external_count:2
ExternalBits == 2
\* new_count.external_count = 2 (node constructor)
InitialHolders == 2
\* dummy_ptr.external_count = 1, new_next.external_count = 1
InitialExternal == 1
\* int const count_increase = old_node_ptr.external_count - 2
ClaimPair == 2

RECURSIVE Pow2(_)
Pow2(n) == IF n = 0 THEN 1 ELSE 2 * Pow2(n - 1)

IntMod == Pow2(InternalBits)
ExtMod == Pow2(ExternalBits)

(* ------------------------------ threads ------------------------------- *)
Producers == {1, 2}
Consumers == {3, 4}
Threads == Producers \cup Consumers
\* the thread that owns the queue: it joins the others and then runs the
\* destructor (the queue is a local of the test function)
Owner == 5
Callers == Threads \cup {Owner}

\* int start = p * items_per_producer; queue.push(start + i): distinct values
ProducerStart(p) == p * 10

\* the null pointer (node* and T*)
Null == 0
\* a slot of the pop order whose data.exchange has not happened yet
Pending == Null - 1

\* the driver scenarios: calls per thread and when a call may begin
\*   free      - producers and consumers run concurrently (main.cpp)
\*   spsc      - one producer and one consumer run concurrently
\*   seq       - one call at a time (a single thread of calls)
\*   poprace   - one push returns, then two consumers pop concurrently
\*   pushrace  - two pushes race, then one consumer pops
\*   nomem     - one producer and one consumer, operator new may throw
Scenarios ==
  { [name |-> "free", quota |-> <<MaxPush + 1, MaxPush, MaxPop, 0>>],
    [name |-> "spsc", quota |-> <<SpscItems, 0, SpscItems + 1, 0>>],
    [name |-> "seq", quota |-> <<SeqItems, 0, SeqItems + 1, 0>>],
    [name |-> "poprace", quota |-> <<1, 0, 1, 1>>],
    [name |-> "pushrace", quota |-> <<1, 1, 3, 0>>],
    [name |-> "nomem", quota |-> <<NoMemItems, 0, NoMemItems, 0>>] }

MaxNodes == 4 + MaxPush + SpscItems + SeqItems + NoMemItems
NodeIds == 1..MaxNodes

\* the values the producers pass to push
ValueIds ==
  {ProducerStart(p) + i : p \in Producers, i \in 1..MaxNodes}

VARIABLES
  head,      \* std::atomic<counted_node_ptr> head
  tail,      \* std::atomic<counted_node_ptr> tail
  node,      \* the heap: node id -> [data, ic, ec, next, st]
  nalloc,    \* number of nodes allocated so far (new node)
  pc,        \* position of each thread inside push / pop
  old,       \* old_tail (push) / old_head (pop)
  ptr,       \* node* const ptr of pop, this of release_ref, ptr of line 126
  nxt,       \* the value of ptr->next read for the head CAS
  cnt,       \* old_counter of release_ref / free_external_counter
  newn,      \* new_next.ptr of push
  val,       \* new_data of push
  res,       \* res of pop
  calls,     \* calls begun by each thread
  quota,     \* calls each thread makes (the driver's loop bound)
  scenario,  \* the driver scenario
  pushed,    \* values in the order of their successful data-install CAS
  popped,    \* pops in the order of their successful head CAS: [v, at], at =
             \* the number of values installed when the CAS happened
  slot,      \* index in popped of the thread's current pop
  rets,      \* per consumer: its pop calls [v, late]: the result (0 = empty)
             \* and whether every push had returned when the call began
  log,       \* seq scenario: calls in the order they returned
  mark,      \* linearizing steps taken when the thread's call last retried
  fault,     \* "none", or the fault that killed the process
  misuse,    \* undefined behaviour the process has survived so far
  copies,    \* the heap of T: value -> copies made by new T and not deleted
  thrown,    \* calls of push that ended in std::bad_alloc
  installed, \* the node of each successful data-install CAS, as in pushed
  before     \* per pop call: the values whose push had returned when it began

vars == <<head, tail, node, nalloc, pc, old, ptr, nxt, cnt, newn, val, res,
          calls, quota, scenario, pushed, popped, slot, rets, log, mark,
          fault, misuse, copies, thrown, installed, before>>

locals == <<old, ptr, nxt, cnt, newn, val, res>>
history == <<pushed, popped, slot, rets, log, mark>>
driver == <<quota, scenario>>
ledger == <<copies, thrown, installed, before>>

CountedPtr(e, p) == [ec |-> e, ptr |-> p]
NodeCounter(i, e) == [ic |-> i, ec |-> e]

\* node(): count = {0, 2}, next = {0, nullptr}, data = nullptr
NewNode ==
  [data |-> Null, ic |-> 0, ec |-> InitialHolders,
   next |-> CountedPtr(0, Null), st |-> "live"]

\* memory that new has not handed out yet
FreeStore ==
  [data |-> Null, ic |-> 0, ec |-> 0, next |-> CountedPtr(0, Null), st |-> "unalloc"]

\* a pointer that may be dereferenced: non-null and not deleted
Valid(n) == n # Null /\ node[n].st = "live"

\* the undefined behaviour of touching node n, when n has been deleted
Stale(n) == IF node[n].st = "deleted" THEN {"use_after_free"} ELSE {}

Idle(t) == pc[t] = "idle"

\* lock_free_queue(): one dummy node named by head and tail, external_count 1
Init ==
  /\ \E sc \in Scenarios : scenario = sc.name /\ quota = sc.quota
  /\ head = CountedPtr(InitialExternal, 1)
  /\ tail = CountedPtr(InitialExternal, 1)
  /\ node = [n \in NodeIds |-> IF n = 1 THEN NewNode ELSE FreeStore]
  /\ nalloc = 1
  /\ pc = [t \in Callers |-> "idle"]
  /\ old = [t \in Callers |-> CountedPtr(0, Null)]
  /\ ptr = [t \in Callers |-> Null]
  /\ nxt = [t \in Callers |-> CountedPtr(0, Null)]
  /\ cnt = [t \in Callers |-> NodeCounter(0, 0)]
  /\ newn = [t \in Callers |-> Null]
  /\ val = [t \in Callers |-> Null]
  /\ res = [t \in Callers |-> Null]
  /\ calls = [t \in Threads |-> 0]
  /\ pushed = <<>>
  /\ popped = <<>>
  /\ slot = [t \in Callers |-> 0]
  /\ rets = [t \in Callers |-> <<>>]
  /\ log = <<>>
  /\ mark = [t \in Callers |-> Pending]
  /\ fault = "none"
  /\ misuse = {}
  /\ copies = [v \in ValueIds |-> 0]
  /\ thrown = 0
  /\ installed = <<>>
  /\ before = [t \in Callers |-> {}]

(* --------------------------- the driver ------------------------------- *)
ProducersDone == \A p \in Producers : Idle(p) /\ calls[p] = quota[p]

\* when the driver lets thread t begin its next call
CanBegin(t) ==
  /\ fault = "none"
  /\ Idle(t)
  /\ calls[t] < quota[t]
  /\ scenario = "seq" => \A u \in Threads : Idle(u)
  /\ (scenario \in {"poprace", "pushrace"} /\ t \in Consumers) => ProducersDone

Running(t) == fault = "none" /\ ~Idle(t)

Logged(entry) == IF scenario = "seq" THEN Append(log, entry) ELSE log

\* linearizing steps taken so far: data installs and head advances
Progress == Len(pushed) + Len(popped)

\* the values whose call of push has returned
PushesReturned ==
  UNION {{ProducerStart(p) + i :
            i \in 1..(calls[p] - IF pc[p] \in {"idle", "p_unwind"} THEN 0 ELSE 1)} :
         p \in Producers}

\* new T(...): one more copy of v
Allocated(heap, v) == [heap EXCEPT ![v] = @ + 1]

\* ~unique_ptr<T>: the copy it holds, if any, is deleted
Released(heap, v) == IF v \in ValueIds THEN [heap EXCEPT ![v] = @ - 1] ELSE heap

(* ------------------------ counter arithmetic -------------------------- *)
\* --new_counter.internal_count on the 30-bit field
ReleasedCounter(c) == NodeCounter((c.ic - 1) % IntMod, c.ec)

\* --new_counter.external_count; new_counter.internal_count += count_increase
FreedCounter(c, external) ==
  NodeCounter((c.ic + (external - ClaimPair)) % IntMod, (c.ec - 1) % ExtMod)

\* mutant of Unreferenced: the external count is not tested
UnreferencedInternal(c) == c.ic = 0

\* if (!new_counter.internal_count && !new_counter.external_count) delete
Unreferenced(c) == c.ic = 0 /\ c.ec = 0

\* the node after a successful CAS of its count to c (deleted when c is zero)
WithCount(nd, c) ==
  [nd EXCEPT !.ic = c.ic, !.ec = c.ec,
             !.st = IF Unreferenced(c) THEN "deleted" ELSE nd.st]

CountOf(nd) == NodeCounter(nd.ic, nd.ec)

(* ------------------------- shared sub-steps --------------------------- *)
\* one iteration of the loop of increase_external_count on head or tail
\* (lines 116-123): the CAS succeeds iff the slot still equals old_counter
ClaimStep(t, counter, counterNext, success) ==
  IF counter = old[t]
    THEN /\ counter.ec < MaxExternal
         /\ counterNext = CountedPtr(old[t].ec + 1, old[t].ptr)
         /\ old' = [old EXCEPT ![t] = CountedPtr(old[t].ec + 1, old[t].ptr)]
         /\ pc' = [pc EXCEPT ![t] = success]
    ELSE /\ counterNext = counter
         /\ old' = [old EXCEPT ![t] = counter]
         /\ pc' = pc

\* old_counter = count.load() of release_ref / free_external_counter
LoadCount(t, from, to) ==
  /\ Running(t) /\ pc[t] = from
  /\ ptr[t] # Null
  /\ cnt' = [cnt EXCEPT ![t] = CountOf(node[ptr[t]])]
  /\ pc' = [pc EXCEPT ![t] = to]
  /\ misuse' = misuse \cup Stale(ptr[t])

\* one iteration of the CAS loop on count: new is the counter to install;
\* the delete of lines 52 / 140 is taken with the CAS that makes it due
CasCount(t, new, done) ==
  /\ ptr[t] # Null
  /\ IF CountOf(node[ptr[t]]) = cnt[t]
       THEN /\ node' = [node EXCEPT ![ptr[t]] = WithCount(@, new)]
            /\ cnt' = cnt
            /\ pc' = [pc EXCEPT ![t] = done]
            /\ misuse' = misuse \cup Stale(ptr[t]) \cup
                 (IF Unreferenced(new) /\ node[ptr[t]].st = "deleted"
                    THEN {"double_delete"} ELSE {})
       ELSE /\ node' = node
            /\ cnt' = [cnt EXCEPT ![t] = CountOf(node[ptr[t]])]
            /\ pc' = pc
            /\ misuse' = misuse \cup Stale(ptr[t])

(* -------------------------------- push -------------------------------- *)
\* lines 74-78: new T, new node, old_tail = tail.load()
PushBegin(t) ==
  /\ t \in Producers /\ CanBegin(t)
  /\ calls' = [calls EXCEPT ![t] = @ + 1]
  /\ val' = [val EXCEPT ![t] = ProducerStart(t) + calls[t] + 1]
  /\ nalloc' = nalloc + 1
  /\ node' = [node EXCEPT ![nalloc + 1] = NewNode]
  /\ newn' = [newn EXCEPT ![t] = nalloc + 1]
  /\ old' = [old EXCEPT ![t] = tail]
  /\ pc' = [pc EXCEPT ![t] = "p_claim"]
  /\ mark' = [mark EXCEPT ![t] = Pending]
  /\ copies' = Allocated(copies, ProducerStart(t) + calls[t] + 1)
  /\ UNCHANGED <<thrown, installed, before>>
  /\ UNCHANGED <<head, tail, ptr, nxt, cnt, res, driver, pushed, popped, slot,
                 rets, log, fault, misuse>>

\* line 74: new T throws std::bad_alloc; nothing has been allocated
PushNoValue(t) ==
  /\ t \in Producers /\ CanBegin(t)
  /\ scenario = "nomem" /\ thrown < MaxThrow
  /\ thrown' = thrown + 1
  /\ UNCHANGED <<copies, installed, before>>
  /\ UNCHANGED <<head, tail, node, nalloc, pc, locals, calls, driver, history,
                 fault, misuse>>

\* lines 74-76: new T succeeds, new node throws std::bad_alloc; new_data
\* holds the copy
PushNoNode(t) ==
  /\ t \in Producers /\ CanBegin(t)
  /\ scenario = "nomem" /\ thrown < MaxThrow
  /\ val' = [val EXCEPT ![t] = ProducerStart(t) + calls[t] + 1]
  /\ copies' = Allocated(copies, ProducerStart(t) + calls[t] + 1)
  /\ pc' = [pc EXCEPT ![t] = "p_unwind"]
  /\ UNCHANGED <<thrown, installed, before>>
  /\ UNCHANGED <<head, tail, node, nalloc, old, ptr, nxt, cnt, newn, res,
                 calls, driver, history, fault, misuse>>

\* mutant of PushUnwind: new_data is a plain T* and nothing deletes it
PushUnwindLeak(t) ==
  /\ Running(t) /\ pc[t] = "p_unwind"
  /\ thrown' = thrown + 1
  /\ pc' = [pc EXCEPT ![t] = "idle"]
  /\ UNCHANGED <<copies, installed, before>>
  /\ UNCHANGED <<head, tail, node, nalloc, locals, calls, driver, history,
                 fault, misuse>>

\* line 74, the exception leaves push: ~unique_ptr<T> deletes the copy
PushUnwind(t) ==
  /\ Running(t) /\ pc[t] = "p_unwind"
  /\ copies' = Released(copies, val[t])
  /\ thrown' = thrown + 1
  /\ pc' = [pc EXCEPT ![t] = "idle"]
  /\ UNCHANGED <<installed, before>>
  /\ UNCHANGED <<head, tail, node, nalloc, locals, calls, driver, history,
                 fault, misuse>>

\* line 81: increase_external_count(tail, old_tail)
PushClaim(t) ==
  /\ Running(t) /\ pc[t] = "p_claim"
  /\ ClaimStep(t, tail, tail', "p_data")
  /\ UNCHANGED ledger
  /\ UNCHANGED <<head, node, nalloc, ptr, nxt, cnt, newn, val, res, calls,
                 driver, history, fault, misuse>>

\* line 83, CAS succeeds: the value is installed in the claimed node
PushInstall(t) ==
  /\ Running(t) /\ pc[t] = "p_data"
  /\ old[t].ptr # Null
  /\ node[old[t].ptr].data = Null
  /\ node' = [node EXCEPT ![old[t].ptr].data = val[t]]
  /\ pushed' = Append(pushed, val[t])
  /\ installed' = Append(installed, old[t].ptr)
  /\ pc' = [pc EXCEPT ![t] = "p_link"]
  /\ misuse' = misuse \cup Stale(old[t].ptr)
  /\ UNCHANGED <<copies, thrown, before>>
  /\ UNCHANGED <<head, tail, nalloc, locals, calls, driver, popped, slot,
                 rets, log, mark, fault>>

\* mutant of PushInstallFail: the push gives up when the CAS fails (the
\* release is followed by a return instead of the next round of the loop)
PushInstallGiveUp(t) ==
  /\ Running(t) /\ pc[t] = "p_data"
  /\ old[t].ptr # Null
  /\ node[old[t].ptr].data # Null
  /\ ptr' = [ptr EXCEPT ![t] = old[t].ptr]
  /\ pc' = [pc EXCEPT ![t] = "idle"]
  /\ mark' = [mark EXCEPT ![t] = Progress]
  /\ misuse' = misuse \cup Stale(old[t].ptr)
  /\ UNCHANGED ledger
  /\ UNCHANGED <<head, tail, node, nalloc, old, nxt, cnt, newn, val, res,
                 calls, driver, pushed, popped, slot, rets, log, fault>>

\* line 83, CAS fails; line 90: old_tail.ptr->release_ref()
PushInstallFail(t) ==
  /\ Running(t) /\ pc[t] = "p_data"
  /\ old[t].ptr # Null
  /\ node[old[t].ptr].data # Null
  /\ ptr' = [ptr EXCEPT ![t] = old[t].ptr]
  /\ pc' = [pc EXCEPT ![t] = "p_rel_load"]
  /\ mark' = [mark EXCEPT ![t] = Progress]
  /\ misuse' = misuse \cup Stale(old[t].ptr)
  /\ UNCHANGED ledger
  /\ UNCHANGED <<head, tail, node, nalloc, old, nxt, cnt, newn, val, res,
                 calls, driver, pushed, popped, slot, rets, log, fault>>

\* mutant of PushLink: the node is linked to itself (next = old_tail)
PushLinkSelf(t) ==
  /\ Running(t) /\ pc[t] = "p_link"
  /\ old[t].ptr # Null
  /\ node' = [node EXCEPT ![old[t].ptr].next = CountedPtr(InitialExternal, old[t].ptr)]
  /\ pc' = [pc EXCEPT ![t] = "p_swing"]
  /\ misuse' = misuse \cup Stale(old[t].ptr)
  /\ UNCHANGED ledger
  /\ UNCHANGED <<head, tail, nalloc, locals, calls, driver, history, fault>>

\* line 84: old_tail.ptr->next = new_next (a plain store)
PushLink(t) ==
  /\ Running(t) /\ pc[t] = "p_link"
  /\ old[t].ptr # Null
  /\ node' = [node EXCEPT ![old[t].ptr].next = CountedPtr(InitialExternal, newn[t])]
  /\ pc' = [pc EXCEPT ![t] = "p_swing"]
  /\ misuse' = misuse \cup Stale(old[t].ptr)
  /\ UNCHANGED ledger
  /\ UNCHANGED <<head, tail, nalloc, locals, calls, driver, history, fault>>

\* mutant of PushSwing: tail is read, not exchanged (tail.load())
PushSwingLoad(t) ==
  /\ Running(t) /\ pc[t] = "p_swing"
  /\ old' = [old EXCEPT ![t] = tail]
  /\ ptr' = [ptr EXCEPT ![t] = tail.ptr]
  /\ pc' = [pc EXCEPT ![t] = "p_free_load"]
  /\ UNCHANGED ledger
  /\ UNCHANGED <<head, tail, node, nalloc, nxt, cnt, newn, val, res, calls,
                 driver, history, fault, misuse>>

\* line 85: old_tail = tail.exchange(new_next); line 126: ptr = old_tail.ptr
PushSwing(t) ==
  /\ Running(t) /\ pc[t] = "p_swing"
  /\ tail' = CountedPtr(InitialExternal, newn[t])
  /\ old' = [old EXCEPT ![t] = tail]
  /\ ptr' = [ptr EXCEPT ![t] = tail.ptr]
  /\ pc' = [pc EXCEPT ![t] = "p_free_load"]
  /\ UNCHANGED ledger
  /\ UNCHANGED <<head, node, nalloc, nxt, cnt, newn, val, res, calls, driver,
                 history, fault, misuse>>

\* line 128 in push
PushFreeLoad(t) ==
  /\ LoadCount(t, "p_free_load", "p_free_cas")
  /\ UNCHANGED ledger
  /\ UNCHANGED <<head, tail, node, nalloc, old, ptr, nxt, newn, val, res,
                 calls, driver, history, fault>>

\* lines 130-141 in push, then lines 87-88: push returns
PushFree(t) ==
  /\ Running(t) /\ pc[t] = "p_free_cas"
  /\ CasCount(t, FreedCounter(cnt[t], old[t].ec), "idle")
  /\ log' = IF pc'[t] = "idle" THEN Logged([op |-> "push", v |-> val[t]]) ELSE log
  /\ UNCHANGED ledger
  /\ UNCHANGED <<head, tail, nalloc, old, ptr, nxt, newn, val, res, calls,
                 driver, pushed, popped, slot, rets, mark, fault>>

\* line 42 in push
PushReleaseLoad(t) ==
  /\ LoadCount(t, "p_rel_load", "p_rel_cas")
  /\ UNCHANGED ledger
  /\ UNCHANGED <<head, tail, node, nalloc, old, ptr, nxt, newn, val, res,
                 calls, driver, history, fault>>

\* lines 44-53 in push, then the loop of line 80 goes round
PushRelease(t) ==
  /\ Running(t) /\ pc[t] = "p_rel_cas"
  /\ CasCount(t, ReleasedCounter(cnt[t]), "p_claim")
  /\ UNCHANGED ledger
  /\ UNCHANGED <<head, tail, nalloc, old, ptr, nxt, newn, val, res, calls,
                 driver, history, fault>>

(* -------------------------------- pop --------------------------------- *)
\* line 95: old_head = head.load()
PopBegin(t) ==
  /\ t \in Consumers /\ CanBegin(t)
  /\ calls' = [calls EXCEPT ![t] = @ + 1]
  /\ old' = [old EXCEPT ![t] = head]
  /\ pc' = [pc EXCEPT ![t] = "c_claim"]
  /\ rets' = [rets EXCEPT ![t] = Append(@, [v |-> Pending, late |-> ProducersDone])]
  /\ mark' = [mark EXCEPT ![t] = Pending]
  /\ before' = [before EXCEPT ![t] = PushesReturned]
  /\ UNCHANGED <<copies, thrown, installed>>
  /\ UNCHANGED <<head, tail, node, nalloc, ptr, nxt, cnt, newn, val, res,
                 driver, pushed, popped, slot, log, fault, misuse>>

\* line 97: increase_external_count(head, old_head)
PopClaim(t) ==
  /\ Running(t) /\ pc[t] = "c_claim"
  /\ ClaimStep(t, head, head', "c_test")
  /\ UNCHANGED ledger
  /\ UNCHANGED <<tail, node, nalloc, ptr, nxt, cnt, newn, val, res, calls,
                 driver, history, fault, misuse>>

\* mutant of PopTest: ptr is compared with head.load().ptr
PopTestHead(t) ==
  /\ Running(t) /\ pc[t] = "c_test"
  /\ ptr' = [ptr EXCEPT ![t] = old[t].ptr]
  /\ pc' = [pc EXCEPT ![t] = IF old[t].ptr = head.ptr THEN "c_empty_load" ELSE "c_next"]
  /\ UNCHANGED ledger
  /\ UNCHANGED <<head, tail, node, nalloc, old, nxt, cnt, newn, val, res,
                 calls, driver, history, fault, misuse>>

\* lines 98-99: ptr = old_head.ptr; if (ptr == tail.load().ptr)
PopTest(t) ==
  /\ Running(t) /\ pc[t] = "c_test"
  /\ ptr' = [ptr EXCEPT ![t] = old[t].ptr]
  /\ pc' = [pc EXCEPT ![t] = IF old[t].ptr = tail.ptr THEN "c_empty_load" ELSE "c_next"]
  /\ UNCHANGED ledger
  /\ UNCHANGED <<head, tail, node, nalloc, old, nxt, cnt, newn, val, res,
                 calls, driver, history, fault, misuse>>

\* line 103: the argument ptr->next is read (a plain load)
PopReadNext(t) ==
  /\ Running(t) /\ pc[t] = "c_next"
  /\ ptr[t] # Null
  /\ nxt' = [nxt EXCEPT ![t] = node[ptr[t]].next]
  /\ pc' = [pc EXCEPT ![t] = "c_head"]
  /\ misuse' = misuse \cup Stale(ptr[t])
  /\ UNCHANGED ledger
  /\ UNCHANGED <<head, tail, node, nalloc, old, ptr, cnt, newn, val, res,
                 calls, driver, history, fault>>

\* line 103, CAS succeeds: head is advanced to ptr->next
PopAdvance(t) ==
  /\ Running(t) /\ pc[t] = "c_head"
  /\ head = old[t]
  /\ head' = nxt[t]
  /\ popped' = Append(popped, [v |-> Pending, at |-> Len(pushed)])
  /\ slot' = [slot EXCEPT ![t] = Len(popped) + 1]
  /\ pc' = [pc EXCEPT ![t] = "c_take"]
  /\ UNCHANGED ledger
  /\ UNCHANGED <<tail, node, nalloc, locals, calls, driver, pushed, rets, log,
                 mark, fault, misuse>>

\* line 103, CAS fails: old_head is reloaded; line 108: ptr->release_ref()
PopAdvanceFail(t) ==
  /\ Running(t) /\ pc[t] = "c_head"
  /\ head # old[t]
  /\ old' = [old EXCEPT ![t] = head]
  /\ pc' = [pc EXCEPT ![t] = "c_rel_load"]
  /\ mark' = [mark EXCEPT ![t] = Progress]
  /\ UNCHANGED ledger
  /\ UNCHANGED <<head, tail, node, nalloc, ptr, nxt, cnt, newn, val, res,
                 calls, driver, pushed, popped, slot, rets, log, fault, misuse>>

\* line 104: res = ptr->data.exchange(nullptr)
PopTake(t) ==
  /\ Running(t) /\ pc[t] = "c_take"
  /\ ptr[t] # Null
  /\ res' = [res EXCEPT ![t] = node[ptr[t]].data]
  /\ node' = [node EXCEPT ![ptr[t]].data = Null]
  /\ popped' = [popped EXCEPT ![slot[t]].v = node[ptr[t]].data]
  /\ pc' = [pc EXCEPT ![t] = "c_free_load"]
  /\ misuse' = misuse \cup Stale(ptr[t])
  /\ UNCHANGED ledger
  /\ UNCHANGED <<head, tail, nalloc, old, ptr, nxt, cnt, newn, val, calls,
                 driver, pushed, slot, rets, log, mark, fault>>

\* line 128 in pop
PopFreeLoad(t) ==
  /\ LoadCount(t, "c_free_load", "c_free_cas")
  /\ UNCHANGED ledger
  /\ UNCHANGED <<head, tail, node, nalloc, old, ptr, nxt, newn, val, res,
                 calls, driver, history, fault>>

\* the call of pop by thread t returns r (main.cpp lines 77-87); the caller's
\* unique_ptr deletes the value when it goes out of scope
PopReturns(t, r) ==
  /\ rets' = [rets EXCEPT ![t][Len(rets[t])].v = r]
  /\ log' = Logged([op |-> "pop", v |-> r])
  /\ copies' = Released(copies, r)

\* lines 130-141 in pop, then line 106: return res
PopFree(t) ==
  /\ Running(t) /\ pc[t] = "c_free_cas"
  /\ CasCount(t, FreedCounter(cnt[t], old[t].ec), "idle")
  /\ IF pc'[t] = "idle" THEN PopReturns(t, res[t])
                       ELSE UNCHANGED <<rets, log, copies>>
  /\ UNCHANGED <<thrown, installed, before>>
  /\ UNCHANGED <<head, tail, nalloc, old, ptr, nxt, newn, val, res, calls,
                 driver, pushed, popped, slot, mark, fault>>

\* line 42 on the empty path (line 100)
PopEmptyLoad(t) ==
  /\ LoadCount(t, "c_empty_load", "c_empty_cas")
  /\ UNCHANGED ledger
  /\ UNCHANGED <<head, tail, node, nalloc, old, ptr, nxt, newn, val, res,
                 calls, driver, history, fault>>

\* lines 44-53 on the empty path, then line 101: return empty
PopEmpty(t) ==
  /\ Running(t) /\ pc[t] = "c_empty_cas"
  /\ CasCount(t, ReleasedCounter(cnt[t]), "idle")
  /\ IF pc'[t] = "idle" THEN PopReturns(t, Null)
                       ELSE UNCHANGED <<rets, log, copies>>
  /\ UNCHANGED <<thrown, installed, before>>
  /\ UNCHANGED <<head, tail, nalloc, old, ptr, nxt, newn, val, res, calls,
                 driver, pushed, popped, slot, mark, fault>>

\* line 42 after a failed head CAS (line 108)
PopReleaseLoad(t) ==
  /\ LoadCount(t, "c_rel_load", "c_rel_cas")
  /\ UNCHANGED ledger
  /\ UNCHANGED <<head, tail, node, nalloc, old, ptr, nxt, newn, val, res,
                 calls, driver, history, fault>>

\* lines 44-53 after a failed head CAS, then the loop of line 96 goes round
PopRelease(t) ==
  /\ Running(t) /\ pc[t] = "c_rel_cas"
  /\ CasCount(t, ReleasedCounter(cnt[t]), "c_claim")
  /\ UNCHANGED ledger
  /\ UNCHANGED <<head, tail, nalloc, old, ptr, nxt, newn, val, res, calls,
                 driver, history, fault>>

(* ----------------------------- destructor ----------------------------- *)
\* what the last call of pop by thread t returned (Pending: no call yet)
LastResult(t) == IF rets[t] = <<>> THEN Pending ELSE rets[t][Len(rets[t])].v

\* line 68: while (pop()) {}: the first call of pop, made once every thread
\* has been joined, and the next one after a non-empty result; line 95
DestroyPop(t) ==
  /\ t = Owner /\ fault = "none" /\ Idle(t)
  /\ calls = quota /\ \A u \in Threads : Idle(u)
  /\ LastResult(t) # Null
  /\ old' = [old EXCEPT ![t] = head]
  /\ pc' = [pc EXCEPT ![t] = "c_claim"]
  /\ rets' = [rets EXCEPT ![t] = Append(@, [v |-> Pending, late |-> ProducersDone])]
  /\ mark' = [mark EXCEPT ![t] = Pending]
  /\ before' = [before EXCEPT ![t] = PushesReturned]
  /\ UNCHANGED <<copies, thrown, installed>>
  /\ UNCHANGED <<head, tail, node, nalloc, ptr, nxt, cnt, newn, val, res, calls,
                 driver, pushed, popped, slot, log, fault, misuse>>

\* lines 69-70: front = head.load().ptr; delete front (of a null pointer:
\* no effect)
DestroyFront(t) ==
  /\ t = Owner /\ fault = "none" /\ Idle(t)
  /\ LastResult(t) = Null
  /\ node' = IF head.ptr = Null THEN node
                              ELSE [node EXCEPT ![head.ptr].st = "deleted"]
  /\ misuse' = misuse \cup
       (IF head.ptr # Null /\ node[head.ptr].st = "deleted"
          THEN {"double_delete"} ELSE {})
  /\ pc' = [pc EXCEPT ![t] = "gone"]
  /\ UNCHANGED ledger
  /\ UNCHANGED <<head, tail, nalloc, locals, calls, driver, history, fault>>

Destroy(t) == DestroyPop(t) \/ DestroyFront(t)

(* ------------------------ undefined behaviour ------------------------- *)
\* the node whose field the next step of thread t accesses
Accessed(t) ==
  IF pc[t] \in {"p_data", "p_link"} THEN old[t].ptr ELSE ptr[t]

Dereferences(t) ==
  pc[t] \in {"p_data", "p_link", "p_free_load", "p_free_cas", "p_rel_load",
             "p_rel_cas", "c_next", "c_take", "c_free_load", "c_free_cas",
             "c_empty_load", "c_empty_cas", "c_rel_load", "c_rel_cas"}

\* the next step of thread t dereferences a null pointer or a deleted node
\* and the process dies of it; on a deleted node the step may instead go
\* through on the memory as the delete left it (the actions above)
Fault(t) ==
  /\ Running(t) /\ Dereferences(t)
  /\ ~Valid(Accessed(t))
  /\ fault' = IF Accessed(t) = Null THEN "null" ELSE "freed"
  /\ UNCHANGED ledger
  /\ UNCHANGED <<head, tail, node, nalloc, pc, locals, calls, driver, history,
                 misuse>>

\* mutant of Pop: head is stored without comparing it with old_head and the
\* data is loaded without being exchanged for nullptr
PopAdvanceStore(t) ==
  /\ Running(t) /\ pc[t] = "c_head"
  /\ head' = nxt[t]
  /\ popped' = Append(popped, [v |-> Pending, at |-> Len(pushed)])
  /\ slot' = [slot EXCEPT ![t] = Len(popped) + 1]
  /\ pc' = [pc EXCEPT ![t] = "c_take"]
  /\ UNCHANGED ledger
  /\ UNCHANGED <<tail, node, nalloc, locals, calls, driver, pushed, rets, log,
                 mark, fault, misuse>>

PopTakeLoad(t) ==
  /\ Running(t) /\ pc[t] = "c_take"
  /\ ptr[t] # Null
  /\ res' = [res EXCEPT ![t] = node[ptr[t]].data]
  /\ popped' = [popped EXCEPT ![slot[t]].v = node[ptr[t]].data]
  /\ pc' = [pc EXCEPT ![t] = "c_free_load"]
  /\ misuse' = misuse \cup Stale(ptr[t])
  /\ UNCHANGED ledger
  /\ UNCHANGED <<head, tail, node, nalloc, old, ptr, nxt, cnt, newn, val,
                 calls, driver, pushed, slot, rets, log, mark, fault>>

PopNotAtomic(t) ==
  \/ PopBegin(t) \/ PopClaim(t) \/ PopTest(t) \/ PopReadNext(t)
  \/ PopAdvanceStore(t) \/ PopTakeLoad(t) \/ PopFreeLoad(t)
  \/ PopFree(t) \/ PopEmptyLoad(t) \/ PopEmpty(t) \/ PopReleaseLoad(t)
  \/ PopRelease(t)

Push(t) ==
  \/ PushBegin(t) \/ PushNoValue(t) \/ PushNoNode(t) \/ PushUnwind(t)
  \/ PushClaim(t) \/ PushInstall(t) \/ PushInstallFail(t)
  \/ PushLink(t) \/ PushSwing(t) \/ PushFreeLoad(t) \/ PushFree(t)
  \/ PushReleaseLoad(t) \/ PushRelease(t)

Pop(t) ==
  \/ PopBegin(t) \/ PopClaim(t) \/ PopTest(t) \/ PopReadNext(t)
  \/ PopAdvance(t) \/ PopAdvanceFail(t) \/ PopTake(t) \/ PopFreeLoad(t)
  \/ PopFree(t) \/ PopEmptyLoad(t) \/ PopEmpty(t) \/ PopReleaseLoad(t)
  \/ PopRelease(t)

Step(t) == Push(t) \/ Pop(t) \/ Destroy(t) \/ Fault(t)

Next == \E t \in Callers : Step(t)

Spec == Init /\ [][Next]_vars

\* the scenarios without a producer racing a consumer (one producer and one
\* consumer, with and without operator new throwing, one call at a time, two
\* pops for one element, two pushes on the empty queue), followed by the
\* destructor, every thread being scheduled again and again.  No
\* pointer is null or deleted when these runs dereference it, so that they
\* have no Fault step: a thread that came to dereference a null pointer
\* would stop here.
InitBoundary == Init /\ scenario # "free"
NextBoundary == \E t \in Callers : Push(t) \/ Pop(t) \/ Destroy(t)
SpecBoundary ==
  /\ InitBoundary /\ [][NextBoundary]_vars
  /\ \A t \in Callers : WF_vars(Push(t) \/ Pop(t) \/ Destroy(t))

(* ------------------------- observed results --------------------------- *)
IsValue(v) == v # Null /\ v # Pending

IsPrefix(a, b) == Len(a) <= Len(b) /\ \A i \in 1..Len(a) : a[i] = b[i]

\* the values of a sequence of [v, ...] records that are values
ValuesOf(s) ==
  LET kept == SelectSeq(s, LAMBDA e : IsValue(e.v))
  IN [i \in 1..Len(kept) |-> kept[i].v]

\* the non-empty results consumer c has been handed, in the order of its calls
Returned(c) == ValuesOf(rets[c])

\* the values producer p has passed to push, in the order of its calls
Passed(p) == [i \in 1..calls[p] |-> ProducerStart(p) + i]

AllPassed == UNION {{Passed(p)[i] : i \in 1..calls[p]} : p \in Producers}
AllReturned == UNION {{Returned(c)[i] : i \in 1..Len(Returned(c))} : c \in Consumers}

RECURSIVE SumOver(_, _)
SumOver(S, f) ==
  IF S = {} THEN 0
  ELSE LET x == CHOOSE y \in S : TRUE IN f[x] + SumOver(S \ {x}, f)

NumReturned == SumOver(Consumers, [c \in Consumers |-> Len(Returned(c))])
NumPassed == SumOver(Producers, calls)

Quiescent == \A t \in Threads : Idle(t)

\* some pop that began after every push had returned has returned empty
DrainedToEmpty ==
  \E c \in Consumers : \E i \in 1..Len(rets[c]) :
    rets[c][i].late /\ rets[c][i].v = Null

NoPendingPop == \A i \in 1..Len(popped) : popped[i].v # Pending

(* ------------------------------ claims -------------------------------- *)
\* C1 (no loss): once every push has returned, the threads are quiescent
\* and a pop begun after the last push returned has come back empty, the
\* number of non-empty pop results equals the number of pushes and the
\* values returned are exactly the values pushed.
C1_NoLoss ==
  (ProducersDone /\ Quiescent /\ DrainedToEmpty) =>
    (NumReturned = NumPassed /\ AllReturned = AllPassed)

\* C2 (at most once): no value is the result of two pops.
C2_AtMostOnce ==
  \A i, j \in 1..Len(popped) :
    (i # j /\ IsValue(popped[i].v)) => popped[i].v # popped[j].v

\* two consumers raced for one node, one retried, and the value went to one
C2_Witness ==
  /\ scenario = "poprace" /\ Quiescent
  /\ \E c \in Consumers : mark[c] # Pending
  /\ \E i \in 1..Len(popped) : IsValue(popped[i].v)

\* C3 (no phantom values): every non-empty pop result is a value whose
\* data-install CAS succeeded before that pop's head-advance CAS.
C3_NoPhantom ==
  \A i \in 1..Len(popped) :
    IsValue(popped[i].v) =>
      \E j \in 1..popped[i].at : pushed[j] = popped[i].v

\* C4 (FIFO overall): the non-empty pop results in head-CAS order are a
\* prefix of the pushed values in data-install order.
C4_FifoOverall ==
  NoPendingPop => IsPrefix(ValuesOf(popped), pushed)

\* C5 (single producer, single consumer): with one thread pushing and one
\* thread popping, the non-empty pop results are the pushed values in push
\* order, and none is missing once a pop begun after the last push returned
\* has come back empty.
C5_SpscFifo ==
  scenario = "spsc" =>
    /\ IsPrefix(Returned(3), Passed(1))
    /\ (ProducersDone /\ DrainedToEmpty) => Returned(3) = Passed(1)

\* the consumer popped while the producer pushed, got every value in order
\* and then drained to empty
C5_Witness ==
  /\ scenario = "spsc" /\ Quiescent /\ DrainedToEmpty
  /\ Len(Returned(3)) = SpscItems
  /\ \E i \in 1..Len(rets[3]) : IsValue(rets[3][i].v) /\ ~rets[3][i].late

\* what a sequential FIFO queue answers to the calls of a log
RECURSIVE FifoAnswers(_, _)
FifoAnswers(calllog, queue) ==
  IF calllog = <<>> THEN TRUE
  ELSE LET e == Head(calllog) IN
       IF e.op = "push"
         THEN FifoAnswers(Tail(calllog), Append(queue, e.v))
         ELSE /\ e.v = (IF queue = <<>> THEN Null ELSE Head(queue))
              /\ FifoAnswers(Tail(calllog), IF queue = <<>> THEN queue ELSE Tail(queue))

\* C6 (sequential behaviour): in a single-threaded sequence of calls every
\* pop returns what a sequential FIFO queue returns: empty iff every pushed
\* value has been popped, otherwise the oldest value not yet popped.
C6_Sequential == scenario = "seq" => FifoAnswers(log, <<>>)

\* every call of the sequence has returned: values came out, and pops on
\* the empty queue came back empty
C6_Witness ==
  /\ scenario = "seq" /\ Quiescent
  /\ Len(log) = 2 * SeqItems + 1
  /\ \E i \in 1..Len(log) : log[i].op = "pop" /\ log[i].v = Null
  /\ \E i \in 1..Len(log) : log[i].op = "pop" /\ IsValue(log[i].v)

\* C7 (two pops race for one element): exactly one of the two pops returns
\* the element and the other returns empty.
C7_PopRace ==
  (scenario = "poprace" /\ Quiescent /\ calls = quota) =>
    \E c, d \in Consumers :
      /\ c # d
      /\ rets[c] = <<[v |-> Passed(1)[1], late |-> TRUE]>>
      /\ rets[d] = <<[v |-> Null, late |-> TRUE]>>

\* both pops have returned, and the loser lost its head CAS on the way
C7_Witness ==
  /\ scenario = "poprace" /\ Quiescent /\ calls = quota
  /\ \E c \in Consumers : mark[c] # Pending /\ rets[c][1].v = Null

\* the two pushes of the race have returned and the pops issued afterwards
\* returned both values and then empty
PushRaceOver ==
  /\ scenario = "pushrace" /\ Quiescent /\ calls = quota
  /\ fault = "none" /\ misuse = {}
  /\ Len(Returned(3)) = 2
  /\ {Returned(3)[1], Returned(3)[2]} = {Passed(1)[1], Passed(2)[1]}
  /\ \A i \in 1..Len(rets[3]) : (i > 2) <=> (rets[3][i].v = Null)

\* C8 (two pushes race on an empty queue, fair scheduling): both pushes
\* eventually return, and the pops issued afterwards return both values
\* before returning empty.
C8_PushRace == (scenario = "pushrace") ~> PushRaceOver

\* both producers hold a claim on the same tail node, one has installed
C8_Witness ==
  /\ scenario = "pushrace"
  /\ pc[1] \in {"p_link", "p_swing"} /\ pc[2] = "p_rel_cas"
  /\ old[1].ptr = ptr[2]

\* thread t goes round the loop of push (line 90) or of pop (line 108)
Retries(t) ==
  \/ pc[t] = "p_data" /\ pc'[t] = "p_rel_load"
  \/ pc[t] = "c_head" /\ pc'[t] = "c_rel_load"

\* C9 (lock-freedom): every failed attempt of a call is caused by another
\* thread's operation having taken its linearizing step: a call that retries
\* again has seen some data install or head advance since its last retry.
C9_LockFree == [][\A t \in Threads : Retries(t) => mark[t] < Progress]_vars

\* C10 (memory safety of nodes): no node is deleted while a thread holds a
\* claim on it, no field of a deleted node is accessed, no node is deleted
\* twice.
HoldsClaim(t) ==
  pc[t] \notin {"idle", "p_unwind", "p_claim", "c_claim", "p_free_load", "p_free_cas"}
ClaimedNode(t) ==
  IF pc[t] \in {"p_data", "p_link", "p_swing", "c_test"} THEN old[t].ptr ELSE ptr[t]
C10_MemorySafe ==
  /\ misuse = {}
  /\ fault # "freed"
  /\ \A t \in Threads :
       (HoldsClaim(t) /\ ClaimedNode(t) # Null) => node[ClaimedNode(t)].st = "live"

\* the destructor has been entered / has returned
Destroying == pc[Owner] # "idle" \/ rets[Owner] # <<>>
Destroyed == pc[Owner] = "gone"

\* C11 (no leak on destruction): the destructor, run once the threads are
\* quiescent, does not fault, and when it has returned every node ever
\* allocated has been deleted, none of them twice (the last one included),
\* and no copy of a value is left on the heap or was deleted twice.
C11_NoLeak ==
  /\ Destroying => fault = "none"
  /\ Destroyed =>
       /\ \A n \in 1..nalloc : node[n].st = "deleted"
       /\ "double_delete" \notin misuse
       /\ \A v \in ValueIds : copies[v] = 0

\* a step of a call of push that ends in std::bad_alloc
AbandonStep ==
  \/ thrown' # thrown
  \/ \E t \in Producers : pc[t] = "idle" /\ pc'[t] = "p_unwind"

\* C12 (allocation failure in push): a push whose new T or new node throws
\* ends without having reached a CAS: its steps leave head, tail, every
\* node's data, next and count, the nodes allocated and the values enqueued
\* as they are, and when it has ended no copy of its value is on the heap.
C12_AllocFail ==
  [][AbandonStep =>
       /\ head' = head /\ tail' = tail /\ node' = node /\ nalloc' = nalloc
       /\ pushed' = pushed /\ installed' = installed /\ calls' = calls
       /\ \A t \in Callers : pc'[t] # pc[t] => pc[t] \in {"idle", "p_unwind"}
       /\ thrown' # thrown =>
            \A t \in Producers :
              pc'[t] = "idle" => copies'[ProducerStart(t) + calls[t] + 1] = 0]_vars

\* the first value is in the queue; the second push got its copy, failed to
\* get its node and has ended
C12_Witness ==
  /\ scenario = "nomem" /\ thrown > 0
  /\ Idle(1) /\ calls[1] = 1 /\ val[1] = ProducerStart(1) + 2
  /\ copies[ProducerStart(1) + 1] = 1 /\ copies[val[1]] = 0
  /\ \E n \in NodeIds : node[n].data = ProducerStart(1) + 1

\* C13 (head and tail name live nodes): from construction until the
\* destructor deletes the last node, the pointers stored in head and in tail
\* are non-null and name nodes that have not been deleted.
C13_HeadTailLive ==
  ~Destroyed =>
    /\ head.ptr # Null /\ node[head.ptr].st = "live"
    /\ tail.ptr # Null /\ node[tail.ptr].st = "live"

\* following next from node n reaches the node named by tail within k
\* links, and every node on the way from n on holds data and is linked
RECURSIVE LinkedToTail(_, _)
LinkedToTail(n, k) ==
  IF n = tail.ptr THEN TRUE
  ELSE IF n = Null \/ k = 0 THEN FALSE
  ELSE /\ node[n].data # Null
       /\ node[n].next.ptr # Null
       /\ LinkedToTail(node[n].next.ptr, k - 1)

\* C14 (list shape): following next links from the node named by head
\* reaches the node named by tail, and every node strictly between them has
\* data != null and next.ptr != null.
C14_ListShape ==
  ~Destroyed =>
    \/ head.ptr = tail.ptr
    \/ /\ head.ptr # Null
       /\ LinkedToTail(node[head.ptr].next.ptr, MaxNodes)

\* C15 (next is written once): a next field that is non-null is never
\* written again: the only write of next (line 84) is made by the producer
\* that turned the tail dummy into a data node, once.
C15_NextOnce ==
  [][\A n \in NodeIds :
       (node[n].st # "unalloc" /\ node[n].next.ptr # Null) =>
         node'[n].next = node[n].next]_vars

\* C16 (unique linker): no node is the target of two successful
\* data-install CASes over its lifetime, a pop having exchanged its data
\* back to null or not.
C16_UniqueLinker ==
  \A i, j \in 1..Len(installed) : i # j => installed[i] # installed[j]

Taken == {popped[i].v : i \in 1..Len(popped)} \ {Null, Pending}

\* pops that have advanced head and not yet exchanged the data out
InFlight == Cardinality({i \in 1..Len(popped) : popped[i].v = Pending})

\* the call of pop by thread c returns an empty unique_ptr in this step
ReturnsEmpty(c) ==
  /\ pc[c] \in {"c_empty_cas", "c_free_cas"} /\ pc'[c] = "idle"
  /\ rets'[c][Len(rets'[c])].v = Null

\* C18 (empty only when empty of completed pushes): when a pop returns
\* empty, every value whose push had returned before that pop began has been
\* dequeued: a pop has taken it, or a pop that has advanced head and is still
\* to exchange the data out accounts for it.
C18_EmptyMeansEmpty ==
  [][\A c \in Callers :
       ReturnsEmpty(c) => Cardinality(before[c] \ Taken) <= InFlight]_vars

\* C19 (tail.exchange returns the claimed node): the slot a push gets back
\* from tail.exchange names the node the push claimed and installed into,
\* so that free_external_counter is applied to the node this push linked.
C19_ExchangeOwnNode ==
  [][\A t \in Producers :
       (pc[t] = "p_swing" /\ pc'[t] = "p_free_load") =>
         (tail.ptr = old[t].ptr /\ ptr'[t] = old[t].ptr)]_vars

\* C20 (a successful head CAS yields a value): the data a pop exchanges out
\* of the node its head CAS took is never null.
C20_TakenNotNull ==
  \A i \in 1..Len(popped) : popped[i].v # Null

====
